---------------------------- MODULE Spec2Model ----------------------------
(***************************************************************************)
(* Aarogya-AI: the report-parsing pipeline.                                *)
(*                                                                         *)
(*   src/src/data_processing/pipeline.py  IntelligentParser: text          *)
(*       extraction, the windowed table scan, process_directory and its    *)
(*       aggregation (drop_duplicates, to_numeric, dropna, ngroup)         *)
(*   src/src/parser.py                    RegexParser, GeminiParser        *)
(*   src/run_pipeline.py                  main: the hybrid batch run       *)
(*   src/src/api/main.py                  process_report                   *)
(*                                                                         *)
(* A Python str is a tuple of one-character strings, so that the regular   *)
(* expressions of the source act on characters as they do in the code.     *)
(* re.IGNORECASE and str.lower() are modelled by lowering both sides; the  *)
(* alphabet of the texts is ASCII.                                         *)
(***************************************************************************)
EXTENDS Integers, Sequences, FiniteSets, TLC

\* ------------------------------------------------------------ characters

UpperToLower ==
    ("A" :> "a") @@ ("B" :> "b") @@ ("C" :> "c") @@ ("D" :> "d") @@
    ("E" :> "e") @@ ("F" :> "f") @@ ("G" :> "g") @@ ("H" :> "h") @@
    ("I" :> "i") @@ ("J" :> "j") @@ ("K" :> "k") @@ ("L" :> "l") @@
    ("M" :> "m") @@ ("N" :> "n") @@ ("O" :> "o") @@ ("P" :> "p") @@
    ("Q" :> "q") @@ ("R" :> "r") @@ ("S" :> "s") @@ ("T" :> "t") @@
    ("U" :> "u") @@ ("V" :> "v") @@ ("W" :> "w") @@ ("X" :> "x") @@
    ("Y" :> "y") @@ ("Z" :> "z")

UpperLetters == DOMAIN UpperToLower

LowerLetters == {UpperToLower[c] : c \in UpperLetters}

DigitChars == {"0", "1", "2", "3", "4", "5", "6", "7", "8", "9"}

DigitValue ==
    ("0" :> 0) @@ ("1" :> 1) @@ ("2" :> 2) @@ ("3" :> 3) @@ ("4" :> 4) @@
    ("5" :> 5) @@ ("6" :> 6) @@ ("7" :> 7) @@ ("8" :> 8) @@ ("9" :> 9)

\* str.lower() on one character
Lower(c) == IF c \in UpperLetters THEN UpperToLower[c] ELSE c

LowerS(s) == [k \in 1..Len(s) |-> Lower(s[k])]

\* \d, \w and \s of the re module
IsDigit(c) == c \in DigitChars

IsWord(c) == c \in UpperLetters \cup LowerLetters \cup DigitChars \cup {"_"}

IsSpace(c) == c \in {" ", "\t", "\n", "\r", "\f"}

MinOf(S) == CHOOSE x \in S : \A y \in S : x <= y

MaxOf(S) == CHOOSE x \in S : \A y \in S : x >= y

\* --------------------------------------------------------------- strings

\* s[i : i + len(lit)] == lit
MatchAt(s, i, lit) ==
    /\ i >= 1
    /\ i + Len(lit) - 1 <= Len(s)
    /\ \A k \in 1..Len(lit) : s[i + k - 1] = lit[k]

\* the same with case ignored; lit is given lowered
MatchAtCI(s, i, lit) ==
    /\ i >= 1
    /\ i + Len(lit) - 1 <= Len(s)
    /\ \A k \in 1..Len(lit) : Lower(s[i + k - 1]) = lit[k]

\* sub in s
Contains(s, sub) == \E i \in 1..(Len(s) - Len(sub) + 1) : MatchAt(s, i, sub)

\* sub in s.lower(); sub is given lowered
ContainsCI(s, sub) == \E i \in 1..(Len(s) - Len(sub) + 1) : MatchAtCI(s, i, sub)

\* str.strip()
Strip(s) ==
    LET ns == {k \in 1..Len(s) : ~IsSpace(s[k])}
    IN  IF ns = {} THEN <<>> ELSE SubSeq(s, MinOf(ns), MaxOf(ns))

\* str.split('\n')
RECURSIVE SplitNewline(_)
SplitNewline(s) ==
    LET nl == {k \in 1..Len(s) : s[k] = "\n"}
    IN  IF nl = {} THEN <<s>>
        ELSE LET k == MinOf(nl)
             IN  <<SubSeq(s, 1, k - 1)>> \o SplitNewline(SubSeq(s, k + 1, Len(s)))

\* [line.strip() for line in text.split('\n') if line.strip()]
NonEmptyLines(text) ==
    LET parts == SplitNewline(text)
        stripped == [k \in 1..Len(parts) |-> Strip(parts[k])]
    IN  SelectSeq(stripped, LAMBDA l : l # <<>>)

\* " ".join(lines[i : i+4])   (i is 1-based here)
RECURSIVE JoinSpace(_)
JoinSpace(ls) ==
    IF ls = <<>> THEN <<>>
    ELSE IF Len(ls) = 1 THEN ls[1]
    ELSE ls[1] \o <<" ">> \o JoinSpace(Tail(ls))

LookaheadWindow == 4

Lookahead(lines, i) ==
    JoinSpace(SubSeq(lines, i, MinOf({Len(lines), i + LookaheadWindow - 1})))

\* the position between s[p-1] and s[p] is a \b
WordBoundary(s, p) ==
    LET w(k) == k \in 1..Len(s) /\ IsWord(s[k])
    IN  w(p - 1) # w(p)

\* the end of the digit run that starts at i
DigitRunEnd(s, i) ==
    CHOOSE e \in i..Len(s) :
        /\ \A k \in i..e : IsDigit(s[k])
        /\ e = Len(s) \/ ~IsDigit(s[e + 1])

\* the first position at or after j that is not whitespace (Len(s)+1 if none)
SkipSpaces(s, j) ==
    MinOf({k \in j..(Len(s) + 1) : k = Len(s) + 1 \/ ~IsSpace(s[k])})

\* a failed re.search (None), and a match with its text
NoMatch == [found |-> FALSE, text |-> <<>>]

Matched(t) == [found |-> TRUE, text |-> t]

NA == <<"N","/","A">>


\* ------------------------------------------- IntelligentParser: patterns

\* re.search(r'(\d+\.\d+|\d+)', s): the leftmost digit starts the match; the
\* decimal alternative is tried first there
FirstNumber(s) ==
    LET ds == {k \in 1..Len(s) : IsDigit(s[k])}
    IN  IF ds = {} THEN NoMatch
        ELSE LET i == MinOf(ds)
                 e == DigitRunEnd(s, i)
             IN  IF e + 2 <= Len(s) /\ s[e + 1] = "." /\ IsDigit(s[e + 2])
                 THEN Matched(SubSeq(s, i, DigitRunEnd(s, e + 2)))
                 ELSE Matched(SubSeq(s, i, e))

\* the end of a match of \d+\s*-\s*\d+ that starts at i, or 0
RangeEndAt(s, i) ==
    IF ~(i \in 1..Len(s) /\ IsDigit(s[i])) THEN 0
    ELSE LET j == SkipSpaces(s, DigitRunEnd(s, i) + 1)
         IN  IF ~(j <= Len(s) /\ s[j] = "-") THEN 0
             ELSE LET k == SkipSpaces(s, j + 1)
                  IN  IF k <= Len(s) /\ IsDigit(s[k]) THEN DigitRunEnd(s, k) ELSE 0

\* re.search(r'(\d+\s*-\s*\d+)', s)
RefInterval(s) ==
    LET st == {i \in 1..Len(s) : RangeEndAt(s, i) # 0}
    IN  IF st = {} THEN NoMatch
        ELSE Matched(SubSeq(s, MinOf(st), RangeEndAt(s, MinOf(st))))

UnitVocabulary == <<<<"m","g","/","d","l">>, <<"r","a","t","i","o">>, <<"u","/","l">>, <<"g","/","d","l">>, <<"%">>>>

\* re.search(r'(mg/dl|Ratio|U/L|g/dL|%)', s, re.IGNORECASE): the leftmost
\* position at which an alternative matches, the first alternative there
UnitToken(s) ==
    LET alt(i) == {u \in 1..Len(UnitVocabulary) : MatchAtCI(s, i, UnitVocabulary[u])}
        st == {i \in 1..Len(s) : alt(i) # {}}
    IN  IF st = {} THEN NoMatch
        ELSE LET i == MinOf(st)
                 u == MinOf(alt(i))
             IN  Matched(SubSeq(s, i, i + Len(UnitVocabulary[u]) - 1))

\* "".join(re.findall(r'[HL..]', line, re.IGNORECASE))
FlagChars(line) == SelectSeq(line, LAMBDA c : Lower(c) \in {"h", "l"})

\* master_test_map, in the dict's insertion order (aliases lowered: the
\* compiled pattern is case-insensitive)
master_test_map == <<
    [name |-> "Total Cholesterol",
     aliases |-> <<<<"t","o","t","a","l"," ","c","h","o","l","e","s","t","e","r","o","l">>, <<"s",".","c","h","o","l","e","s","t","e","r","o","l">>, <<"c","h","o","l","e","s","t","e","r","o","l">>>>],
    [name |-> "HDL Cholesterol",
     aliases |-> <<<<"h","d","l"," ","c","h","o","l","e","s","t","e","r","o","l">>, <<"s","."," ","h","d","l">>, <<"h","d","l","-","c","h","o","l","e","s","t","e","r","o","l">>, <<"h","d","l">>>>],
    [name |-> "Triglycerides",
     aliases |-> <<<<"t","r","i","g","l","y","c","e","r","i","d","e","s">>, <<"s",".","t","r","i","g","l","y","c","e","r","i","d","e","s">>>>] >>

\* one compiled pattern r'\b(a1|a2|...)\b', searched in a line
AliasSearch(aliases, line) ==
    \E a \in 1..Len(aliases) : \E i \in 1..Len(line) :
            /\ MatchAtCI(line, i, aliases[a])
            /\ WordBoundary(line, i)
            /\ WordBoundary(line, i + Len(aliases[a]))

\* self.test_patterns: canonical name -> compiled pattern, in catalog order
_compile_test_patterns == [k \in 1..Len(master_test_map) |->
    [name |-> master_test_map[k].name, aliases |-> master_test_map[k].aliases]]

PatternSearch(k, line) == AliasSearch(_compile_test_patterns[k].aliases, line)

table_start_keywords ==
    <<<<"b","i","o","c","h","e","m","i","s","t","r","y">>, <<"t","e","s","t"," ","n","a","m","e">>, <<"t","e","s","t"," ","p","e","r","f","o","r","m","e","d">>, <<"i","n","v","e","s","t","i","g","a","t","i","o","n","s">>,
      <<"l","i","p","i","d"," ","p","r","o","f","i","l","e">>>>

table_end_keywords ==
    <<<<"i","n","t","e","r","p","r","e","t","a","t","i","o","n">>, <<"c","l","i","n","i","c","a","l"," ","s","i","g","n","i","f","i","c","a","n","c","e">>, <<"*","*"," ","e","n","d"," ","o","f"," ","r","e","p","o","r","t">>,
      <<"-","-","-">>, <<"m","e","t","h","o","d",":">>, <<"p","a","g","e",":">>>>

\* any(keyword.lower() in line.lower() for keyword in keywords)
AnyKeyword(keywords, line) ==
    \E k \in 1..Len(keywords) : ContainsCI(line, keywords[k])


\* ------------------------------------ IntelligentParser: the table scan

\* the end keywords looked at before the start keywords
SectionAfter_end_first(in_test_section, line) ==
    LET closed == IF in_test_section /\ AnyKeyword(table_end_keywords, line)
                  THEN FALSE ELSE in_test_section
    IN  IF ~closed /\ AnyKeyword(table_start_keywords, line) THEN TRUE ELSE closed

\* in_test_section after the two ifs at the head of the loop body
SectionAfter(in_test_section, line) ==
    LET opened == IF ~in_test_section /\ AnyKeyword(table_start_keywords, line)
                  THEN TRUE ELSE in_test_section
    IN  IF opened /\ AnyKeyword(table_end_keywords, line) THEN FALSE ELSE opened

\* the dict appended to results for line i under catalog entry k
ResultRow(lines, i, k) ==
    LET line == lines[i]
        lookahead_text == Lookahead(lines, i)
        ref_match == RefInterval(lookahead_text)
        unit_match == UnitToken(lookahead_text)
    IN  [test_name |-> _compile_test_patterns[k].name,
         result |-> FirstNumber(lookahead_text).text,
         flag |-> FlagChars(line),
         biological_ref_interval |-> IF ref_match.found THEN ref_match.text ELSE NA,
         unit |-> IF unit_match.found THEN unit_match.text ELSE NA]

\* the loop without its break: every later entry is tried as well
RECURSIVE PatternLoop_no_break(_, _, _)
PatternLoop_no_break(lines, i, k) ==
    IF k > Len(_compile_test_patterns) THEN <<>>
    ELSE (IF PatternSearch(k, lines[i]) /\ FirstNumber(Lookahead(lines, i)).found
          THEN <<ResultRow(lines, i, k)>> ELSE <<>>)
         \o PatternLoop_no_break(lines, i, k + 1)

\* for standard_name, pattern in self.test_patterns.items(), from entry k
\* on: the rows appended for line i. An entry whose pattern matches the line
\* appends a row and breaks when the window holds a number; otherwise the
\* loop goes on to the next entry.
RECURSIVE PatternLoop(_, _, _)
PatternLoop(lines, i, k) ==
    IF k > Len(_compile_test_patterns) THEN <<>>
    ELSE IF PatternSearch(k, lines[i]) /\ FirstNumber(Lookahead(lines, i)).found
    THEN <<ResultRow(lines, i, k)>>
    ELSE PatternLoop(lines, i, k + 1)

\* the rows line i adds, given in_test_section after the line's toggles
LineRows(lines, i, in_section) ==
    IF in_section THEN PatternLoop(lines, i, 1) ELSE <<>>

\* the loop over enumerate(lines) from line i on; each entry is
\* [i, the line, in_test_section after line i, rows appended at line i]
RECURSIVE ScanFrom(_, _, _)
ScanFrom(lines, i, in_test_section) ==
    IF i > Len(lines) THEN <<>>
    ELSE LET now == SectionAfter(in_test_section, lines[i])
         IN  <<[i |-> i, line |-> lines[i], in_section |-> now,
               rows |-> LineRows(lines, i, now)]>>
             \o ScanFrom(lines, i + 1, now)

ScanTrace(text) == ScanFrom(NonEmptyLines(text), 1, FALSE)

RECURSIVE FlattenRows(_)
FlattenRows(steps) ==
    IF steps = <<>> THEN <<>> ELSE steps[1].rows \o FlattenRows(Tail(steps))

\* _parse_test_results(text): the rows of the DataFrame, in order
_parse_test_results(text) == FlattenRows(ScanTrace(text))


\* ----------------------------------- IntelligentParser: patient details

\* Python's None in a column
PyNone == <<"None">>

Unknown == <<"U","n","k","n","o","w","n">>

\* (?:Name|Patient Name)\s*:\s*(Mr\.|Mrs\.)\s*([^\n]+) matched with "name" at
\* i: the start of group 2, or 0. "Patient Name" ends in "Name", so the
\* groups of the leftmost match are those of the leftmost "name" that works.
\* \s* is greedy and gives back until a non-newline character follows it.
NameGroupAt(s, i) ==
    IF ~MatchAtCI(s, i, <<"n","a","m","e">>) THEN 0
    ELSE LET c == SkipSpaces(s, i + 4)
         IN  IF ~(c <= Len(s) /\ s[c] = ":") THEN 0
             ELSE LET t == SkipSpaces(s, c + 1)
                      after == IF MatchAtCI(s, t, <<"m","r",".">>) THEN t + 3
                               ELSE IF MatchAtCI(s, t, <<"m","r","s",".">>) THEN t + 4
                               ELSE 0
                      starts == {g \in after..Len(s) :
                                    /\ \A m \in after..(g - 1) : IsSpace(s[m])
                                    /\ s[g] # "\n"}
                  IN  IF after = 0 \/ starts = {} THEN 0 ELSE MaxOf(starts)

\* [^\n]+ from g: to the end of the line
RestOfLine(s, g) ==
    LET nl == {k \in g..Len(s) : s[k] = "\n"}
    IN  SubSeq(s, g, IF nl = {} THEN Len(s) ELSE MinOf(nl) - 1)

NameMatch(s) ==
    LET st == {i \in 1..Len(s) : NameGroupAt(s, i) # 0}
    IN  IF st = {} THEN NoMatch
        ELSE Matched(Strip(RestOfLine(s, NameGroupAt(s, MinOf(st)))))

\* Age\s*:\s*(\d+) matched with "age" at i: the start of the group, or 0
AgeGroupAt(s, i) ==
    IF ~MatchAtCI(s, i, <<"a","g","e">>) THEN 0
    ELSE LET c == SkipSpaces(s, i + 3)
         IN  IF ~(c <= Len(s) /\ s[c] = ":") THEN 0
             ELSE LET d == SkipSpaces(s, c + 1)
                  IN  IF d <= Len(s) /\ IsDigit(s[d]) THEN d ELSE 0

AgeMatch(s) ==
    LET st == {i \in 1..Len(s) : AgeGroupAt(s, i) # 0}
    IN  IF st = {} THEN NoMatch
        ELSE LET d == AgeGroupAt(s, MinOf(st))
             IN  Matched(SubSeq(s, d, DigitRunEnd(s, d)))

SexAlternatives == <<<<"m","a","l","e">>, <<"f","e","m","a","l","e">>, <<"m">>, <<"f">>>>

\* Sex\s*:\s*(Male|Female|M|F)\b matched with "sex" at i: the group's
\* [from, to], or <<0, 0>>
SexGroupAt(s, i) ==
    IF ~MatchAtCI(s, i, <<"s","e","x">>) THEN <<0, 0>>
    ELSE LET c == SkipSpaces(s, i + 3)
         IN  IF ~(c <= Len(s) /\ s[c] = ":") THEN <<0, 0>>
             ELSE LET g == SkipSpaces(s, c + 1)
                      alts == {a \in 1..Len(SexAlternatives) :
                                  /\ MatchAtCI(s, g, SexAlternatives[a])
                                  /\ WordBoundary(s, g + Len(SexAlternatives[a]))}
                  IN  IF alts = {} THEN <<0, 0>>
                      ELSE <<g, g + Len(SexAlternatives[MinOf(alts)]) - 1>>

SexMatch(s) ==
    LET st == {i \in 1..Len(s) : SexGroupAt(s, i)[1] # 0}
    IN  IF st = {} THEN NoMatch
        ELSE LET g == SexGroupAt(s, MinOf(st))
             IN  Matched(Strip(SubSeq(s, g[1], g[2])))

\* _parse_patient_info(text), read with the defaults process_directory gives
\* to info.get: 'Unknown', None, 'Unknown'
_parse_patient_info(text) ==
    [patient_name |-> IF NameMatch(text).found THEN NameMatch(text).text ELSE Unknown,
     age |-> IF AgeMatch(text).found THEN AgeMatch(text).text ELSE PyNone,
     sex |-> IF SexMatch(text).found THEN SexMatch(text).text ELSE Unknown]


\* ------------------------------ process_directory: the master DataFrame

\* NaN, what pd.to_numeric(errors='coerce') gives a value it cannot parse
NaN == [nan |-> TRUE]

RECURSIVE IntVal(_)
IntVal(ds) ==
    IF ds = <<>> THEN 0
    ELSE 10 * IntVal(SubSeq(ds, 1, Len(ds) - 1)) + DigitValue[ds[Len(ds)]]

RECURSIVE StripTrailingZeros(_)
StripTrailingZeros(ds) ==
    IF ds # <<>> /\ ds[Len(ds)] = "0"
    THEN StripTrailingZeros(SubSeq(ds, 1, Len(ds) - 1))
    ELSE ds

\* digits, or digits '.' digits: the strings the scan's r'(\d+\.\d+|\d+)' gives
IsPlainNumber(s) ==
    LET dots == {k \in 1..Len(s) : s[k] = "."}
    IN  /\ s # <<>>
        /\ \A k \in 1..Len(s) : IsDigit(s[k]) \/ s[k] = "."
        /\ Cardinality(dots) <= 1
        /\ \A k \in dots : k > 1 /\ k < Len(s)

\* the number a plain numeric string denotes: "45" and "45.0" are one number
NumberOf(s) ==
    LET dots == {k \in 1..Len(s) : s[k] = "."}
        d == IF dots = {} THEN Len(s) + 1 ELSE MinOf(dots)
    IN  [nan |-> FALSE,
         whole |-> IntVal(SubSeq(s, 1, d - 1)),
         frac |-> StripTrailingZeros(SubSeq(s, d + 1, Len(s)))]

\* pd.to_numeric(value, errors='coerce') on one value of the result column
to_numeric(v) == IF IsPlainNumber(v) THEN NumberOf(v) ELSE NaN

RECURSIVE Concat(_)
Concat(dfs) == IF dfs = <<>> THEN <<>> ELSE dfs[1] \o Concat(Tail(dfs))

\* the rows of df at the positions in keep, in order
RECURSIVE RowsAt(_, _, _)
RowsAt(df, keep, k) ==
    IF k > Len(df) THEN <<>>
    ELSE (IF k \in keep THEN <<df[k]>> ELSE <<>>) \o RowsAt(df, keep, k + 1)

\* duplicates decided on five columns only, as with subset=[...]
KeptByDropDuplicates_subset(df) ==
    {k \in 1..Len(df) : \A j \in 1..(k - 1) :
        <<df[j].test_name, df[j].result, df[j].unit,
          df[j].biological_ref_interval, df[j].source_file>>
        # <<df[k].test_name, df[k].result, df[k].unit,
            df[k].biological_ref_interval, df[k].source_file>>}

\* duplicates decided without the source file, as with a subset that leaves
\* source_file out
KeptByDropDuplicates_across_files(df) ==
    {k \in 1..Len(df) : \A j \in 1..(k - 1) :
        [df[j] EXCEPT !.source_file = 0] # [df[k] EXCEPT !.source_file = 0]}

\* the positions DataFrame.drop_duplicates() keeps: a row goes when an
\* earlier row equals it in every column
KeptByDropDuplicates(df) ==
    {k \in 1..Len(df) : \A j \in 1..(k - 1) : df[j] # df[k]}

drop_duplicates(df) == RowsAt(df, KeptByDropDuplicates(df), 1)

CoerceResult(df) ==
    [k \in 1..Len(df) |-> [df[k] EXCEPT !.result = to_numeric(df[k].result)]]

\* dropna(subset=['result'])
dropna(df) == SelectSeq(df, LAMBDA r : r.result # NaN)

\* groupby('source_file').ngroup(): the groups are numbered from 0 in the
\* sorted order of their keys
ngroup(df, key) ==
    Cardinality({df[k].source_file : k \in 1..Len(df)} \cap 0..(key - 1))

AssignPatientId(df) ==
    [k \in 1..Len(df) |->
        df[k] @@ [patient_id |-> ngroup(df, df[k].source_file) + 1]]

\* the if all_results: branch at the end of process_directory
BuildMaster(all) ==
    AssignPatientId(dropna(CoerceResult(drop_duplicates(Concat(all)))))

\* df_results with the four columns process_directory adds
WithDocumentColumns(df, info, filename) ==
    [k \in 1..Len(df) |->
        df[k] @@ [patient_name |-> info.patient_name, age |-> info.age,
                  sex |-> info.sex, source_file |-> filename]]


\* ------------------------------------------------------------ the inputs

\* what one page gives: page.get_text("text") / image_to_string, or an exception
PageText(t) == [ok |-> TRUE, text |-> t]

PageFails == [ok |-> FALSE, text |-> <<>>]

PgReport == <<"N","a","m","e",":"," ","M","r","."," ","J","o","h","n"," ","D","o","e","\n","A","g","e",":"," ","4","5","\n","S","e","x",":"," ","M","a","l","e","\n","B","I","O","C","H","E","M","I","S","T","R","Y","\n","T","o","t","a","l"," ","C","h","o","l","e","s","t","e","r","o","l"," ","1","8","0"," ","m","g","/","d","l"," ","(","1","2","5","-","2","0","0",")","\n","I","n","t","e","r","p","r","e","t","a","t","i","o","n",":"," ","n","o","r","m","a","l","\n">>

PgLipidA == <<"L","I","P","I","D"," ","P","R","O","F","I","L","E","\n","H","D","L"," ","4","5"," ","m","g","/","d","l","\n","H","D","L"," ","4","5"," ","m","g","/","d","l","\n">>

PgLipidB == <<"H","D","L"," ","4","5",".","0"," ","m","g","/","d","l","\n","H","D","L"," ","4","5"," ","m","g","/","d","l"," ","H","\n">>

PgAlias == <<"T","e","s","t"," ","N","a","m","e"," ","R","e","s","u","l","t"," ","U","n","i","t"," ","R","e","f","e","r","e","n","c","e","\n","H","D","L"," ","C","h","o","l","e","s","t","e","r","o","l"," ","4","5"," ","m","g","/","d","l","\n">>

PgNoTable == <<"N","a","m","e",":"," ","M","r","s","."," ","A","s","h","a","\n","n","o"," ","t","a","b","l","e"," ","h","e","r","e","\n">>

PgOpenLine == <<"B","I","O","C","H","E","M","I","S","T","R","Y","\n","T","r","i","g","l","y","c","e","r","i","d","e","s">>

PgValue == <<"1","5","0"," ","m","g","/","d","l","\n">>

\* a file of the directory: what its name and the file system say of it
\* (hidden: the name starts with '.'; dir: not os.path.isfile; txt: no
\* supported extension), and what reading it gives
Corpus ==
    { [kind |-> "hidden", opens |-> TRUE, pages |-> <<PageText(PgReport)>>],
      [kind |-> "dir", opens |-> TRUE, pages |-> <<>>],
      [kind |-> "txt", opens |-> TRUE, pages |-> <<PageText(PgReport)>>],
      [kind |-> "pdf", opens |-> FALSE, pages |-> <<>>],
      [kind |-> "pdf", opens |-> TRUE, pages |-> <<PageText(PgReport)>>],
      [kind |-> "pdf", opens |-> TRUE, pages |-> <<PageText(PgLipidA), PageText(PgLipidB)>>],
      [kind |-> "pdf", opens |-> TRUE, pages |-> <<PageText(PgLipidA), PageFails, PageText(PgLipidB)>>],
      [kind |-> "pdf", opens |-> TRUE, pages |-> <<PageText(PgOpenLine), PageText(PgValue)>>],
      [kind |-> "pdf", opens |-> TRUE, pages |-> <<PageText(PgNoTable)>>],
      [kind |-> "pdf", opens |-> TRUE, pages |-> <<PageText(<<>>)>>],
      [kind |-> "image", opens |-> TRUE, pages |-> <<PageText(PgAlias)>>],
      [kind |-> "image", opens |-> TRUE, pages |-> <<PageFails>>] }

\* the most files a directory holds; a file's name is its rank among all
\* names in sorted order
MaxFiles == 3

RECURSIVE OrderingsOf(_)
OrderingsOf(S) ==
    IF S = {} THEN {<<>>}
    ELSE UNION {{<<x>> \o p : p \in OrderingsOf(S \ {x})} : x \in S}

\* sorted(names)
RECURSIVE SortedSeq(_)
SortedSeq(S) ==
    IF S = {} THEN <<>> ELSE <<MinOf(S)>> \o SortedSeq(S \ {MinOf(S)})

Range(f) == {f[k] : k \in DOMAIN f}


\* ------------------------------------------------- Python and JSON values

JNull == [t |-> "null"]

JStr(s) == [t |-> "str", v |-> s]

JNum(n) == [t |-> "num", v |-> n]

JList(items) == [t |-> "list", v |-> items]

\* a dict: v maps its keys to values
JObj(f) == [t |-> "obj", v |-> f]

EmptyDict == JObj(<<>>)

\* d.get(key, default) on a dict
DictGet(d, key, default) == IF key \in DOMAIN d.v THEN d.v[key] ELSE default

\* -------------------------------------------------- RegexParser.parse

\* The patterns come from params.yaml, which the repository does not hold.
\* Each pattern of the catalogs below is one of four regular expressions
\* over an alias A (searched with re.IGNORECASE | re.DOTALL):
\*   "value":    (A)\s+(\d+)\s*(mg/dl)?   three groups, the unit optional
\*   "token":    (A)\s+(\S+)              two groups
\*   "optional": (A)\s*(\d+)?             two groups, the value optional
\*   "single":   (A)\s+\d+                one group
Pattern(name, alias, shape) == [name |-> name, alias |-> alias, shape |-> shape]

\* the end of the run of non-whitespace that starts at i
TokenEnd(s, i) ==
    CHOOSE e \in i..Len(s) :
        /\ \A k \in i..e : ~IsSpace(s[k])
        /\ e = Len(s) \/ IsSpace(s[e + 1])

\* whether the pattern matches with its alias at i
PatternMatchesAt(p, s, i) ==
    LET after == i + Len(p.alias)
        nxt == SkipSpaces(s, after)
    IN  /\ MatchAtCI(s, i, p.alias)
        /\ CASE p.shape = "optional" -> TRUE
             [] p.shape = "token" -> nxt > after /\ nxt <= Len(s)
             [] OTHER -> nxt > after /\ nxt <= Len(s) /\ IsDigit(s[nxt])

\* the groups of the match that has its alias at i
GroupsAt(p, s, i) ==
    LET v == SkipSpaces(s, i + Len(p.alias))
        digits == v <= Len(s) /\ IsDigit(s[v])
    IN  CASE p.shape = "value" ->
               LET e == DigitRunEnd(s, v)
                   u == SkipSpaces(s, e + 1)
               IN  [found |-> TRUE, groups |-> 3,
                    group2 |-> SubSeq(s, v, e),
                    group3 |-> IF MatchAtCI(s, u, <<"m","g","/","d","l">>)
                               THEN SubSeq(s, u, u + 4) ELSE PyNone]
           [] p.shape = "token" ->
               [found |-> TRUE, groups |-> 2,
                group2 |-> SubSeq(s, v, TokenEnd(s, v)), group3 |-> PyNone]
           [] p.shape = "optional" ->
               [found |-> TRUE, groups |-> 2,
                group2 |-> IF digits THEN SubSeq(s, v, DigitRunEnd(s, v))
                           ELSE PyNone,
                group3 |-> PyNone]
           [] OTHER ->
               [found |-> TRUE, groups |-> 1, group2 |-> PyNone,
                group3 |-> PyNone]

\* the match object of re.search(pattern, text): how many groups the pattern
\* has, and groups 2 and 3 (PyNone for a group that took no part). The match
\* is the leftmost one. (x \in {e} names the value of e, computed once.)
RegexSearch(p, s) ==
    CHOOSE m \in { IF st = {} THEN [found |-> FALSE] ELSE GroupsAt(p, s, MinOf(st)) :
                   st \in {{i \in 1..Len(s) : PatternMatchesAt(p, s, i)}} } : TRUE

\* float(x) for the values a group can hold: None raises TypeError; a str is
\* stripped and read as [sign] digits [. digits] (also "5." and ".5"), "inf",
\* "infinity" and "nan"; the texts here hold no exponent or underscore forms
PyFloat(x) ==
    IF x = PyNone THEN [raises |-> "TypeError"]
    ELSE LET s == Strip(x)
             signed == s # <<>> /\ s[1] \in {"+", "-"}
             body == IF signed THEN Tail(s) ELSE s
             dots == {k \in 1..Len(body) : body[k] = "."}
         IN  IF LowerS(body) \in {<<"i","n","f">>, <<"i","n","f","i","n","i","t","y">>}
             THEN [raises |-> "no",
                   value |-> [nan |-> FALSE, inf |-> TRUE, neg |-> signed /\ s[1] = "-"]]
             ELSE IF LowerS(body) = <<"n","a","n">>
             THEN [raises |-> "no", value |-> NaN]
             ELSE IF /\ \E k \in 1..Len(body) : IsDigit(body[k])
                     /\ \A k \in 1..Len(body) : IsDigit(body[k]) \/ body[k] = "."
                     /\ Cardinality(dots) <= 1
             THEN [raises |-> "no",
                   value |-> NumberOf(body) @@ [neg |-> signed /\ s[1] = "-"]]
             ELSE [raises |-> "ValueError"]

\* the handlers of the try in RegexParser.parse
CaughtInRegexParse == {"ValueError", "IndexError"}

\* the dict the loop body builds from a match, or what building it raises:
\* match.group(2) of a pattern with one group raises IndexError before float
\* is called
ResultOf(p, m) ==
    IF ~m.found THEN [raises |-> "no", items |-> <<>>]
    ELSE IF m.groups < 2 THEN [raises |-> "IndexError", items |-> <<>>]
    ELSE LET f == PyFloat(m.group2)
         IN  IF f.raises # "no" THEN [raises |-> f.raises, items |-> <<>>]
             ELSE [raises |-> "no",
                   items |-> <<JObj(
                       ("test_name" :> JStr(p.name)) @@
                       ("result" :> JNum(f.value)) @@
                       ("unit" :> IF m.groups > 2 /\ m.group3 # PyNone
                                  THEN JStr(Strip(m.group3)) ELSE JNull))>>]

\* the body of the loop for one pattern
RegexResult(p, s) ==
    CHOOSE r \in {ResultOf(p, m) : m \in {RegexSearch(p, s)}} : TRUE

\* what the loop gives when pattern k gave r and the later patterns give
\* rest: an exception that is not caught leaves the method at once
LoopResult(r, rest) ==
    IF r.raises # "no" /\ r.raises \notin CaughtInRegexParse
    THEN [raises |-> r.raises, items |-> <<>>]
    ELSE IF rest.raises # "no" THEN rest
    ELSE [raises |-> "no", items |-> r.items \o rest.items]

\* RegexParser.parse(text) from pattern k on: the test_results list, or the
\* exception that leaves the method
RECURSIVE RegexParseFrom(_, _, _)
RegexParseFrom(patterns, k, s) ==
    IF k > Len(patterns) THEN [raises |-> "no", items |-> <<>>]
    ELSE CHOOSE out \in { LoopResult(r, rest) :
                            r \in {RegexResult(patterns[k], s)},
                            rest \in {RegexParseFrom(patterns, k + 1, s)} } : TRUE

RegexParser_parse(patterns, s) ==
    CHOOSE out \in { [raises |-> r.raises,
                      data |-> JObj("test_results" :> JList(r.items))] :
                     r \in {RegexParseFrom(patterns, 1, s)} } : TRUE

\* -------------------------------------------------- GeminiParser.parse

\* what the model call gives: generate_content raises; response.text is not
\* JSON; or response.text is JSON, of any shape
ModelRaises == [kind |-> "raises"]

ModelNotJson == [kind |-> "not_json"]

ModelJson(value) == [kind |-> "json", value |-> value]

\* the dict the except branch returns
EmptyRecord ==
    JObj(("patient_details" :> EmptyDict) @@ ("test_results" :> JList(<<>>)))

GeminiParser_parse(response) ==
    IF response.kind = "json" THEN response.value ELSE EmptyRecord


\* ------------------------------------------------------------- the state

VARIABLES
    pc,             \* where the running program is
    listdir,        \* os.listdir(): the names, in the order the OS gives them
    files,          \* the names the loop iterates, in its order
    fidx,           \* how many of them the loop has taken
    cur,            \* the file being processed: its name and what reading it gives
    pageIdx,        \* pages of cur read so far
    text,           \* the local text of the extraction
    raw_text,       \* what the extraction returned
    all_results,    \* process_directory: the per-file DataFrames
    master_df,      \* process_directory: the DataFrame returned
    scan,           \* process_directory: the line-by-line record of the last
                    \* _parse_test_results call
    params,         \* main / process_report: threshold and regex patterns
    parsed_data,    \* main / process_report: the parser's result in hand
    num_tests_found,\* main: len(parsed_data['test_results']) of the RegexParser
    gemini_calls,   \* main / process_report: calls of GeminiParser.parse for cur
    response,       \* main / process_report: what the model call gave for cur
    final_results,  \* main: the rows collected
    lines,          \* _parse_test_results: the stripped non-empty lines
    scan_i,         \* _parse_test_results: lines the loop has taken
    in_test_section,\* _parse_test_results: the section flag
    results,        \* _parse_test_results: the rows appended
    initialized,    \* process_report: the parsers and the summary model are set
    tmp_exists,     \* process_report: the temporary file is on disk
    regex_calls,    \* process_report: calls of REGEX_PARSER.parse
    summary_calls,  \* process_report: calls of SUMMARY_MODEL.generate_content
    http_status,    \* process_report: the status the request ended with
    raised,         \* the exception that left the program, and where
    outcome         \* how the program ended

vars == <<pc, listdir, files, fidx, cur, pageIdx, text, raw_text, all_results,
          master_df, scan, params, parsed_data, num_tests_found, gemini_calls,
          response, final_results, lines, scan_i, in_test_section, results,
          initialized, tmp_exists, regex_calls, summary_calls, http_status,
          raised, outcome>>

extractVars == <<pageIdx, text, raw_text>>

dirVars == <<all_results, master_df, scan>>

scanVars == <<lines, scan_i, in_test_section, results>>

\* _parse_test_results is not running
ScanIdle ==
    /\ lines = <<>>
    /\ scan_i = 0
    /\ in_test_section = FALSE
    /\ results = <<>>

apiVars == <<initialized, tmp_exists, regex_calls, summary_calls, http_status>>

\* no request is being served
ApiIdle ==
    /\ initialized = FALSE
    /\ tmp_exists = FALSE
    /\ regex_calls = 0
    /\ summary_calls = 0
    /\ http_status = 0

mainVars == <<params, parsed_data, num_tests_found, gemini_calls, response,
              final_results, raised>>

NoFile == [name |-> 0, kind |-> "none", opens |-> FALSE, pages |-> <<>>]

NoParams == [threshold |-> 0, patterns |-> <<>>]

NoData == [t |-> "none"]

NoResponse == [kind |-> "none"]

NotRaised == [error |-> "none", in |-> "none"]

RaisedIn(error, where) == [error |-> error, in |-> where]

\* ------------------------------------- _extract_text_from_file(file_path)

SupportedKinds == {"pdf", "image"}

\* a slip that puts the new page before the text read so far
AppendPage_prepend(t, page_text) == page_text \o t

\* text += page.get_text("text")
AppendPage(t, page_text) == t \o page_text

\* the call: the extension check, then fitz.open / Image.open inside the try
ExtractOpen ==
    /\ pc = "extract"
    /\ IF cur.kind \notin SupportedKinds \/ ~cur.opens
       THEN /\ raw_text' = <<>>
            /\ pc' = "extracted"
       ELSE /\ raw_text' = raw_text
            /\ pc' = "pages"
    /\ text' = <<>>
    /\ pageIdx' = 0
    /\ UNCHANGED <<apiVars, scanVars, listdir, files, fidx, cur, dirVars, mainVars, outcome>>

\* one turn of for page in doc (an image is read in one such step); an
\* exception leaves the try for the except, which returns ""
ExtractPage ==
    /\ pc = "pages"
    /\ pageIdx < Len(cur.pages)
    /\ LET page == cur.pages[pageIdx + 1]
       IN  IF page.ok
           THEN /\ text' = AppendPage(text, page.text)
                /\ pageIdx' = pageIdx + 1
                /\ UNCHANGED <<raw_text, pc>>
           ELSE /\ raw_text' = <<>>
                /\ pc' = "extracted"
                /\ UNCHANGED <<text, pageIdx>>
    /\ UNCHANGED <<apiVars, scanVars, listdir, files, fidx, cur, dirVars, mainVars, outcome>>

\* return text
ExtractReturn ==
    /\ pc = "pages"
    /\ pageIdx = Len(cur.pages)
    /\ raw_text' = text
    /\ pc' = "extracted"
    /\ UNCHANGED <<apiVars, scanVars, listdir, files, fidx, cur, pageIdx, text, dirVars, mainVars, outcome>>

\* ------------------------------------ process_directory(directory_path)

InitDir ==
    /\ pc \in {"dir_start", "dir_nodir"}
    /\ \E n \in 0..MaxFiles : listdir \in OrderingsOf(1..n)
    /\ files = <<>>
    /\ fidx = 0
    /\ cur = NoFile
    /\ pageIdx = 0
    /\ text = <<>>
    /\ raw_text = <<>>
    /\ all_results = <<>>
    /\ master_df = <<>>
    /\ scan = <<>>
    /\ params = NoParams
    /\ parsed_data = NoData
    /\ num_tests_found = 0
    /\ gemini_calls = 0
    /\ response = NoResponse
    /\ final_results = <<>>
    /\ ScanIdle
    /\ ApiIdle
    /\ raised = NotRaised
    /\ outcome = "running"

\* if not os.path.isdir(directory_path): return pd.DataFrame()
DirNotADirectory ==
    /\ pc = "dir_nodir"
    /\ pc' = "done"
    /\ outcome' = "returned"
    /\ UNCHANGED <<apiVars, scanVars, listdir, files, fidx, cur, extractVars, dirVars, mainVars>>

\* the directory taken in the order os.listdir gives it
sorted_omitted(names) == names

\* sorted(names)
sorted(names) == SortedSeq(Range(names))

\* for filename in sorted(os.listdir(directory_path))
DirList ==
    /\ pc = "dir_start"
    /\ files' = sorted(listdir)
    /\ pc' = "dir_loop"
    /\ UNCHANGED <<apiVars, scanVars, listdir, fidx, cur, extractVars, dirVars, mainVars, outcome>>

\* the head of the loop body: hidden names and non-files are skipped, the
\* others go to _extract_text_from_file
DirNextFile ==
    /\ pc = "dir_loop"
    /\ fidx < Len(files)
    /\ fidx' = fidx + 1
    /\ \E doc \in Corpus :
        /\ cur' = [name |-> files[fidx + 1], kind |-> doc.kind,
                   opens |-> doc.opens, pages |-> doc.pages]
        /\ pc' = IF doc.kind \in {"hidden", "dir"} THEN "dir_loop" ELSE "extract"
    /\ UNCHANGED <<apiVars, scanVars, listdir, files, extractVars, dirVars, mainVars, outcome>>

\* if not raw_text: continue; else the two parsers and the append
DirParse ==
    /\ pc = "extracted"
    /\ IF raw_text = <<>>
       THEN UNCHANGED <<all_results, scan>>
       ELSE /\ scan' = ScanTrace(raw_text)
            /\ LET patient_info == _parse_patient_info(raw_text)
                   df_results == FlattenRows(scan')
               IN  IF df_results # <<>>
                   THEN all_results' = Append(all_results,
                           WithDocumentColumns(df_results, patient_info, cur.name))
                   ELSE UNCHANGED all_results
    /\ pc' = "dir_loop"
    /\ UNCHANGED <<apiVars, scanVars, listdir, files, fidx, cur, extractVars, master_df, mainVars, outcome>>

\* after the loop: the master DataFrame, or an empty one
DirAggregate ==
    /\ pc = "dir_loop"
    /\ fidx = Len(files)
    /\ master_df' = IF all_results # <<>> THEN BuildMaster(all_results) ELSE <<>>
    /\ pc' = "done"
    /\ outcome' = "returned"
    /\ UNCHANGED <<apiVars, scanVars, listdir, files, fidx, cur, extractVars, all_results, scan, mainVars>>

NextDir ==
    \/ DirNotADirectory
    \/ DirList
    \/ DirNextFile
    \/ ExtractOpen
    \/ ExtractPage
    \/ ExtractReturn
    \/ DirParse
    \/ DirAggregate

SpecDir == InitDir /\ [][NextDir]_vars


\* ------------------------------------------------- run_pipeline.py: main

\* main imports extract_text_from_file from pipeline.py, which defines the
\* extraction only as the method IntelligentParser._extract_text_from_file:
\* the text main works on is what that method returns.

\* the regex_patterns a params.yaml may hold, in the dict's order
PatternCatalogs ==
    { <<Pattern(<<"T","o","t","a","l"," ","C","h","o","l","e","s","t","e","r","o","l">>, <<"t","o","t","a","l"," ","c","h","o","l","e","s","t","e","r","o","l">>, "value"),
        Pattern(<<"H","D","L">>, <<"h","d","l">>, "value")>>,
      <<Pattern(<<"H","D","L">>, <<"h","d","l">>, "token"),
        Pattern(<<"A","g","e">>, <<"a","g","e",":">>, "token")>>,
      <<Pattern(<<"T","o","t","a","l"," ","C","h","o","l","e","s","t","e","r","o","l">>, <<"c","h","o","l","e","s","t","e","r","o","l">>, "optional"),
        Pattern(<<"H","D","L">>, <<"h","d","l">>, "optional")>>,
      <<Pattern(<<"H","D","L">>, <<"h","d","l">>, "single"),
        Pattern(<<"T","o","t","a","l"," ","C","h","o","l","e","s","t","e","r","o","l">>, <<"t","o","t","a","l"," ","c","h","o","l","e","s","t","e","r","o","l">>, "value")>> }

\* the largest gemini_fallback_threshold of a params.yaml
MaxThreshold == 2

\* what the model may answer
ModelResponses ==
    { ModelRaises,
      ModelNotJson,
      ModelJson(JList(<<>>)),
      ModelJson(JObj(("patient_details" :> JNull) @@ ("test_results" :> JList(<<>>)))),
      ModelJson(JObj("test_results" :> JList(<<JStr(<<"H","D","L"," ","4","5">>)>>))),
      ModelJson(JObj(
          ("patient_details" :> JObj("name" :> JStr(<<"A","s","h","a">>))) @@
          ("test_results" :> JList(<<
              JObj(("test_name" :> JStr(<<"H","D","L">>)) @@
                   ("result" :> JNum(NumberOf(<<"4","5">>))) @@
                   ("unit" :> JStr(<<"m","g","/","d","l">>)))>>)))),
      ModelJson(JObj(
          ("patient_details" :> EmptyDict) @@
          ("test_results" :> JList(<<
              JObj(("test_name" :> JStr(<<"H","I","V">>)) @@
                   ("result" :> JStr(<<"N","e","g","a","t","i","v","e">>)))>>)))) }

\* the files main lists: those of the corpus whose names end in a listed
\* extension
MainCorpus == {doc \in Corpus : doc.kind \in SupportedKinds}

\* len(raw_text) < 50
MinTextLength == 50

\* num_tests_found < fallback_threshold
EscalationNeeded_inclusive(found, threshold) == found <= threshold

EscalationNeeded(found, threshold) == found < threshold

InitMain ==
    /\ pc \in {"main_start", "main_noparams"}
    /\ \E n \in 0..MaxFiles : listdir \in OrderingsOf(1..n)
    /\ files = <<>>
    /\ fidx = 0
    /\ cur = NoFile
    /\ pageIdx = 0
    /\ text = <<>>
    /\ raw_text = <<>>
    /\ all_results = <<>>
    /\ master_df = <<>>
    /\ scan = <<>>
    /\ \E th \in 0..MaxThreshold : \E ps \in PatternCatalogs :
          params = [threshold |-> th, patterns |-> ps]
    /\ parsed_data = NoData
    /\ num_tests_found = 0
    /\ gemini_calls = 0
    /\ response = NoResponse
    /\ final_results = <<>>
    /\ ScanIdle
    /\ ApiIdle
    /\ raised = NotRaised
    /\ outcome = "running"

\* except FileNotFoundError: ... return
MainNoParams ==
    /\ pc = "main_noparams"
    /\ pc' = "done"
    /\ outcome' = "no_params"
    /\ UNCHANGED <<apiVars, scanVars, listdir, files, fidx, cur, extractVars, dirVars, mainVars>>

\* all_files: the listing, in the order os.listdir gives it
MainList ==
    /\ pc = "main_start"
    /\ files' = listdir
    /\ pc' = "main_loop"
    /\ UNCHANGED <<apiVars, scanVars, listdir, fidx, cur, extractVars, dirVars, mainVars, outcome>>

\* for file_path in tqdm(all_files): raw_text = extract_text_from_file(file_path)
MainNextFile ==
    /\ pc = "main_loop"
    /\ fidx < Len(files)
    /\ fidx' = fidx + 1
    /\ \E doc \in MainCorpus :
          cur' = [name |-> files[fidx + 1], kind |-> doc.kind,
                  opens |-> doc.opens, pages |-> doc.pages]
    /\ pc' = "extract"
    /\ parsed_data' = NoData
    /\ num_tests_found' = 0
    /\ gemini_calls' = 0
    /\ response' = NoResponse
    /\ UNCHANGED <<apiVars, scanVars, listdir, files, extractVars, dirVars, params, final_results,
                   raised, outcome>>

\* if not raw_text or len(raw_text) < 50: continue; else regex_parser.parse
MainRegexParse ==
    /\ pc = "extracted"
    /\ IF raw_text = <<>> \/ Len(raw_text) < MinTextLength
       THEN /\ pc' = "main_loop"
            /\ UNCHANGED <<parsed_data, num_tests_found, raised, outcome>>
       ELSE \E r \in {RegexParser_parse(params.patterns, raw_text)} :
                IF r.raises # "no"
                THEN /\ raised' = RaisedIn(r.raises, "RegexParser.parse")
                     /\ outcome' = "exception"
                     /\ pc' = "done"
                     /\ UNCHANGED <<parsed_data, num_tests_found>>
                ELSE /\ parsed_data' = r.data
                     /\ num_tests_found' = Len(DictGet(r.data, "test_results", JList(<<>>)).v)
                     /\ pc' = "main_decide"
                     /\ UNCHANGED <<raised, outcome>>
    /\ UNCHANGED <<apiVars, scanVars, listdir, files, fidx, cur, extractVars, dirVars, params,
                   gemini_calls, response, final_results>>

\* if num_tests_found < fallback_threshold: ... else: ...
MainDecide ==
    /\ pc = "main_decide"
    /\ pc' = IF EscalationNeeded(num_tests_found, params.threshold)
             THEN "main_gemini" ELSE "main_collect"
    /\ UNCHANGED <<apiVars, scanVars, listdir, files, fidx, cur, extractVars, dirVars, mainVars, outcome>>

\* parsed_data = gemini_parser.parse(raw_text)
MainGemini ==
    /\ pc = "main_gemini"
    /\ \E r \in ModelResponses :
          /\ response' = r
          /\ parsed_data' = GeminiParser_parse(r)
    /\ gemini_calls' = gemini_calls + 1
    /\ pc' = "main_collect"
    /\ UNCHANGED <<apiVars, scanVars, listdir, files, fidx, cur, extractVars, dirVars, params,
                   num_tests_found, final_results, raised, outcome>>

\* parsed_data.get('patient_details', {}).get('name'): .get on a value that
\* is no dict raises AttributeError
PatientName(data) ==
    IF data.t # "obj" THEN [raises |-> "AttributeError", value |-> JNull]
    ELSE LET details == DictGet(data, "patient_details", EmptyDict)
         IN  IF details.t # "obj" THEN [raises |-> "AttributeError", value |-> JNull]
             ELSE [raises |-> "no", value |-> DictGet(details, "name", JNull)]

\* what for test in parsed_data.get('test_results', []) iterates: the items
\* of a list, the characters of a str, the keys of a dict (each a str);
\* None and a number are not iterable
Iterated(data) ==
    LET tr == DictGet(data, "test_results", JList(<<>>))
    IN  CASE tr.t = "list" -> [raises |-> "no", items |-> tr.v]
          [] tr.t = "str" ->
                [raises |-> "no", items |-> [k \in 1..Len(tr.v) |-> JStr(<<tr.v[k]>>)]]
          [] tr.t = "obj" ->
                [raises |-> "no",
                 items |-> [k \in 1..Cardinality(DOMAIN tr.v) |-> JStr(<<>>)]]
          [] OTHER -> [raises |-> "TypeError", items |-> <<>>]

\* the body of the loop from item k on: test['patient_name'] = ... on an item
\* that is no dict raises TypeError; the rows appended before that stay
RECURSIVE CollectFrom(_, _, _, _)
CollectFrom(items, k, patient_name, filename) ==
    IF k > Len(items) THEN [raises |-> "no", rows |-> <<>>]
    ELSE IF items[k].t # "obj" THEN [raises |-> "TypeError", rows |-> <<>>]
    ELSE LET row == JObj(("patient_name" :> patient_name) @@
                         ("source_file" :> JStr(filename)) @@ items[k].v)
             rest == CollectFrom(items, k + 1, patient_name, filename)
         IN  [raises |-> rest.raises, rows |-> <<row>> \o rest.rows]

\* lines 84-88 of main for the file at hand
Collect(data, filename) ==
    LET name == PatientName(data)
    IN  IF name.raises # "no" THEN [raises |-> name.raises, rows |-> <<>>]
        ELSE IF Iterated(data).raises # "no"
        THEN [raises |-> Iterated(data).raises, rows |-> <<>>]
        ELSE CollectFrom(Iterated(data).items, 1, name.value, filename)

MainCollect ==
    /\ pc = "main_collect"
    /\ \E c \in {Collect(parsed_data, cur.name)} :
           /\ final_results' = final_results \o c.rows
           /\ IF c.raises # "no"
              THEN /\ raised' = RaisedIn(c.raises, "main")
                   /\ outcome' = "exception"
                   /\ pc' = "done"
              ELSE /\ pc' = "main_loop"
                   /\ UNCHANGED <<raised, outcome>>
    /\ UNCHANGED <<apiVars, scanVars, listdir, files, fidx, cur, extractVars, dirVars, params,
                   parsed_data, num_tests_found, gemini_calls, response>>

\* after the loop: the CSV is written iff rows were collected
MainSave ==
    /\ pc = "main_loop"
    /\ fidx = Len(files)
    /\ outcome' = IF final_results # <<>> THEN "saved" ELSE "no_data"
    /\ pc' = "done"
    /\ UNCHANGED <<apiVars, scanVars, listdir, files, fidx, cur, extractVars, dirVars, mainVars>>

NextMain ==
    \/ MainNoParams
    \/ MainList
    \/ MainNextFile
    \/ ExtractOpen
    \/ ExtractPage
    \/ ExtractReturn
    \/ MainRegexParse
    \/ MainDecide
    \/ MainGemini
    \/ MainCollect
    \/ MainSave

SpecMain == InitMain /\ [][NextMain]_vars


\* ------------------------------- _parse_test_results(text), line by line

\* the lines a report text is made of
ReportLines ==
    { <<"L","I","P","I","D"," ","P","R","O","F","I","L","E">>,
      <<"I","n","t","e","r","p","r","e","t","a","t","i","o","n",":"," ","n","o","r","m","a","l">>,
      <<"T","e","s","t"," ","N","a","m","e"," ","M","e","t","h","o","d",":"," ","G","O","D">>,
      <<"H","D","L"," ","C","h","o","l","e","s","t","e","r","o","l"," ","4","5"," ","m","g","/","d","l">>,
      <<"T","r","i","g","l","y","c","e","r","i","d","e","s">>,
      <<"1","5","0"," ","m","g","/","d","l">>,
      <<" "," ","S","."," ","H","D","L"," ","5","0"," ","H"," ">> }

\* the most lines a text holds
MaxLines == 4

RECURSIVE JoinLines(_)
JoinLines(ls) ==
    IF ls = <<>> THEN <<>> ELSE ls[1] \o <<"\n">> \o JoinLines(Tail(ls))

\* results = []; lines = [...]; in_test_section = False
InitScan ==
    /\ pc = "scan"
    /\ \E n \in 0..MaxLines : \E ls \in [1..n -> ReportLines] :
          /\ raw_text = JoinLines(ls)
          /\ lines = NonEmptyLines(JoinLines(ls))
    /\ scan_i = 0
    /\ in_test_section = FALSE
    /\ results = <<>>
    /\ scan = <<>>
    /\ listdir = <<>>
    /\ files = <<>>
    /\ fidx = 0
    /\ cur = NoFile
    /\ pageIdx = 0
    /\ text = <<>>
    /\ all_results = <<>>
    /\ master_df = <<>>
    /\ params = NoParams
    /\ parsed_data = NoData
    /\ num_tests_found = 0
    /\ gemini_calls = 0
    /\ response = NoResponse
    /\ final_results = <<>>
    /\ ApiIdle
    /\ raised = NotRaised
    /\ outcome = "running"

\* one turn of for i, line in enumerate(lines): the two toggles, then the
\* loop over the patterns; scan records the turn
ScanLine ==
    /\ pc = "scan"
    /\ scan_i < Len(lines)
    /\ \E now \in {SectionAfter(in_test_section, lines[scan_i + 1])} :
       \E rows \in {LineRows(lines, scan_i + 1, now)} :
          /\ in_test_section' = now
          /\ results' = results \o rows
          /\ scan' = Append(scan, [i |-> scan_i + 1, line |-> lines[scan_i + 1],
                                   in_section |-> now, rows |-> rows])
    /\ scan_i' = scan_i + 1
    /\ UNCHANGED <<apiVars, pc, lines, listdir, files, fidx, cur, extractVars, all_results,
                   master_df, mainVars, outcome>>

\* return pd.DataFrame(results)
ScanReturn ==
    /\ pc = "scan"
    /\ scan_i = Len(lines)
    /\ pc' = "done"
    /\ outcome' = "returned"
    /\ UNCHANGED <<apiVars, scanVars, listdir, files, fidx, cur, extractVars, dirVars, mainVars>>

NextScan ==
    \/ ScanLine
    \/ ScanReturn

SpecScan == InitScan /\ [][NextScan]_vars


\* ---------------------------------------- api/main.py: process_report

\* the files a client may upload: those main lists, a file without a
\* supported extension, and a scan with a few characters of text
UploadCorpus ==
    MainCorpus
    \cup {doc \in Corpus : doc.kind = "txt"}
    \cup {[kind |-> "image", opens |-> TRUE, pages |-> <<PageText(PgValue)>>]}

\* len(raw_text) < 20
MinApiTextLength == 20

\* .get('gemini_fallback_threshold', 5)
DefaultThreshold == 5

\* format_data_for_summary(structured_data) raises: .get on a value that is
\* no dict, iteration over a value that is not iterable, .lower() on a
\* test_name that is no str
FormatRaises(data) ==
    \/ data.t # "obj"
    \/ DictGet(data, "patient_details", EmptyDict).t # "obj"
    \/ Iterated(data).raises # "no"
    \/ \E k \in 1..Len(Iterated(data).items) :
          \/ Iterated(data).items[k].t # "obj"
          \/ DictGet(Iterated(data).items[k], "test_name", JStr(<<>>)).t # "str"

\* PatientDetails(**...) and TestResult(**test) accept the data: name is a
\* str or None; test_name is a str and result is given; unit is a str or None
Validates(data) ==
    /\ DictGet(DictGet(data, "patient_details", EmptyDict), "name", JNull).t
          \in {"str", "null"}
    /\ \A k \in 1..Len(Iterated(data).items) :
          /\ "test_name" \in DOMAIN Iterated(data).items[k].v
          /\ "result" \in DOMAIN Iterated(data).items[k].v
          /\ DictGet(Iterated(data).items[k], "unit", JNull).t \in {"str", "null"}

\* a request arrives: startup has set the parsers and the model, or has
\* failed and left them None
InitApi ==
    /\ pc = "api_start"
    /\ initialized \in BOOLEAN
    /\ \E doc \in UploadCorpus :
          cur = [name |-> 1, kind |-> doc.kind, opens |-> doc.opens,
                 pages |-> doc.pages]
    /\ \E th \in (0..MaxThreshold) \cup {DefaultThreshold} :
       \E ps \in PatternCatalogs :
          params = [threshold |-> th, patterns |-> ps]
    /\ tmp_exists = FALSE
    /\ regex_calls = 0
    /\ summary_calls = 0
    /\ http_status = 0
    /\ ScanIdle
    /\ listdir = <<>>
    /\ files = <<>>
    /\ fidx = 0
    /\ pageIdx = 0
    /\ text = <<>>
    /\ raw_text = <<>>
    /\ all_results = <<>>
    /\ master_df = <<>>
    /\ scan = <<>>
    /\ parsed_data = NoData
    /\ num_tests_found = 0
    /\ gemini_calls = 0
    /\ response = NoResponse
    /\ final_results = <<>>
    /\ raised = NotRaised
    /\ outcome = "running"

\* if not all([REGEX_PARSER, GEMINI_PARSER, SUMMARY_MODEL]): raise 503
ApiNotInitialized ==
    /\ pc = "api_start"
    /\ ~initialized
    /\ http_status' = 503
    /\ pc' = "done"
    /\ outcome' = "responded"
    /\ UNCHANGED <<initialized, tmp_exists, regex_calls, summary_calls, scanVars,
                   listdir, files, fidx, cur, extractVars, dirVars, mainVars>>

\* with tempfile.NamedTemporaryFile(delete=False, ...) as tmp: tmp.write(...)
ApiWriteTemp ==
    /\ pc = "api_start"
    /\ initialized
    /\ tmp_exists' = TRUE
    /\ pc' = "extract"
    /\ UNCHANGED <<initialized, regex_calls, summary_calls, http_status, scanVars,
                   listdir, files, fidx, cur, extractVars, dirVars, mainVars, outcome>>

\* an exception raised inside the try, HTTPException included, is caught by
\* except Exception, which raises HTTPException(500); finally unlinks the
\* temporary file
ApiExcept(error) ==
    /\ raised' = RaisedIn(error, "process_report")
    /\ http_status' = 500
    /\ tmp_exists' = FALSE
    /\ pc' = "done"
    /\ outcome' = "responded"

\* lines 119-122: the text check, then REGEX_PARSER.parse(raw_text)
ApiCheckText ==
    /\ pc = "extracted"
    /\ IF raw_text = <<>> \/ Len(raw_text) < MinApiTextLength
       THEN /\ ApiExcept("HTTPException(400)")
            /\ UNCHANGED <<parsed_data, num_tests_found, regex_calls>>
       ELSE \E r \in {RegexParser_parse(params.patterns, raw_text)} :
               /\ regex_calls' = regex_calls + 1
               /\ IF r.raises # "no"
                  THEN /\ ApiExcept(r.raises)
                       /\ UNCHANGED <<parsed_data, num_tests_found>>
                  ELSE /\ parsed_data' = r.data
                       /\ num_tests_found' =
                             Len(DictGet(r.data, "test_results", JList(<<>>)).v)
                       /\ pc' = "api_decide"
                       /\ UNCHANGED <<raised, http_status, tmp_exists, outcome>>
    /\ UNCHANGED <<initialized, summary_calls, scanVars, listdir, files, fidx, cur,
                   extractVars, dirVars, params, gemini_calls, response,
                   final_results>>

\* if len(...) < params.get('parser_config', {}).get(..., 5):
ApiDecide ==
    /\ pc = "api_decide"
    /\ pc' = IF EscalationNeeded(num_tests_found, params.threshold)
             THEN "api_gemini" ELSE "api_respond"
    /\ UNCHANGED <<apiVars, scanVars, listdir, files, fidx, cur, extractVars,
                   dirVars, mainVars, outcome>>

\* structured_data_dict = GEMINI_PARSER.parse(raw_text)
ApiGemini ==
    /\ pc = "api_gemini"
    /\ \E r \in ModelResponses :
          /\ response' = r
          /\ parsed_data' = GeminiParser_parse(r)
    /\ gemini_calls' = gemini_calls + 1
    /\ pc' = "api_respond"
    /\ UNCHANGED <<apiVars, scanVars, listdir, files, fidx, cur, extractVars,
                   dirVars, params, num_tests_found, final_results, raised,
                   outcome>>

\* lines 126-147: the summary and the response; finally unlinks the file
ApiRespond ==
    /\ pc = "api_respond"
    /\ IF FormatRaises(parsed_data)
       THEN /\ ApiExcept("AttributeError")
            /\ UNCHANGED summary_calls
       ELSE /\ summary_calls' = summary_calls + 1
            /\ \E summary_ok \in BOOLEAN :
                  IF ~summary_ok THEN ApiExcept("Exception")
                  ELSE IF ~Validates(parsed_data) THEN ApiExcept("ValidationError")
                  ELSE /\ http_status' = 200
                       /\ tmp_exists' = FALSE
                       /\ pc' = "done"
                       /\ outcome' = "responded"
                       /\ UNCHANGED raised
    /\ UNCHANGED <<initialized, regex_calls, scanVars, listdir, files, fidx, cur,
                   extractVars, dirVars, params, parsed_data, num_tests_found,
                   gemini_calls, response, final_results>>

NextApi ==
    \/ ApiNotInitialized
    \/ ApiWriteTemp
    \/ ExtractOpen
    \/ ExtractPage
    \/ ExtractReturn
    \/ ApiCheckText
    \/ ApiDecide
    \/ ApiGemini
    \/ ApiRespond

SpecApi == InitApi /\ [][NextApi]_vars


\* ----------------------------------------------- properties: extraction

\* every page of the file at hand was read
AllPagesRead ==
    /\ cur.kind \in SupportedKinds
    /\ cur.opens
    /\ \A k \in 1..Len(cur.pages) : cur.pages[k].ok

MultiPage == Len(cur.pages) >= 2

RECURSIVE PagesInOrder(_)
PagesInOrder(pages) ==
    IF pages = <<>> THEN <<>> ELSE pages[1].text \o PagesInOrder(Tail(pages))

PageBreakMarker == <<"\f">>

RECURSIVE PagesJoinedByMarker(_)
PagesJoinedByMarker(pages) ==
    IF pages = <<>> THEN <<>>
    ELSE IF Len(pages) = 1 THEN pages[1].text
    ELSE pages[1].text \o PageBreakMarker \o PagesJoinedByMarker(Tail(pages))

C4_FailedPageKeepsOtherPages ==
    (/\ pc = "extracted"
     /\ cur.kind \in SupportedKinds
     /\ cur.opens
     /\ MultiPage
     /\ \E k \in 1..Len(cur.pages) : ~cur.pages[k].ok)
        => \A k \in 1..Len(cur.pages) :
              cur.pages[k].ok => Contains(raw_text, cur.pages[k].text)

\* ------------------------------------------------ properties: aliases

\* the line names its test by this alias: it begins with the alias, as a word
LineNamesTestBy(line, alias) ==
    /\ MatchAtCI(line, 1, alias)
    /\ WordBoundary(line, 1 + Len(alias))

\* C7 (as stated): a line that names a test by an alias of canonical name X
\* is never emitted with another canonical name.
C7_AliasNeverEmittedUnderOtherName ==
    \A s \in 1..Len(scan) : \A x \in 1..Len(master_test_map) :
        \A a \in 1..Len(master_test_map[x].aliases) :
            (/\ scan[s].rows # <<>>
             /\ LineNamesTestBy(scan[s].line, master_test_map[x].aliases[a]))
                => scan[s].rows[1].test_name = master_test_map[x].name

\* -------------------------------------------------- properties: aggregate

ExtractedColumns ==
    {"test_name", "flag", "biological_ref_interval", "unit", "patient_name",
     "age", "sex", "source_file"}

\* a row of the master DataFrame is this extracted row, its result coerced
IsRowOf(m, f) ==
    /\ \A c \in ExtractedColumns : m[c] = f[c]
    /\ m.result = to_numeric(f.result)

FiveFields(r) ==
    <<r.test_name, r.result, r.unit, r.biological_ref_interval, r.source_file>>

\* C9 (as amended): aggregation removes a row if and only if an earlier row
\* equals it in every column as extracted (test_name, result text, flag,
\* reference range, unit, patient fields, source file): the rows returned
\* are as many as the distinct extracted rows, and every extracted row is
\* among them with its result coerced.
C9_OnlyExactDuplicatesRemoved ==
    (pc = "done" /\ all_results # <<>>)
        => LET flat == Concat(all_results)
           IN  /\ Len(master_df) = Cardinality(Range(flat))
               /\ \A k \in 1..Len(flat) : \E m \in 1..Len(master_df) :
                      IsRowOf(master_df[m], flat[k])

C9_Witness ==
    /\ pc = "done"
    /\ Len(master_df) < Len(Concat(all_results))
    /\ \E a, b \in 1..Len(master_df) :
          /\ a # b
          /\ FiveFields(master_df[a]) = FiveFields(master_df[b])
          /\ master_df[a].flag # master_df[b].flag

\* C9 (as stated): the Dataset never holds two rows equal on test_name,
\* result, unit, reference_range and source file.
C9_NoTwoRowsEqualOnFiveFields ==
    pc = "done"
        => \A a, b \in 1..Len(master_df) :
              a # b => FiveFields(master_df[a]) # FiveFields(master_df[b])

\* the turn of the loop at which a source file was seen
FirstSeen(name) == CHOOSE k \in 1..Len(files) : files[k] = name

\* C10: patient_id takes exactly the values 1..N, N the number of distinct
\* source files in the Dataset; the rows of one source file share one id;
\* the ids follow the order in which the loop saw the source files.
C10_PatientIdDenseInFirstSeenOrder ==
    (pc = "done" /\ master_df # <<>>)
        => LET rows == 1..Len(master_df)
               sources == {master_df[k].source_file : k \in rows}
           IN  /\ {master_df[k].patient_id : k \in rows} = 1..Cardinality(sources)
               /\ \A a, b \in rows :
                    /\ (master_df[a].source_file = master_df[b].source_file)
                        <=> (master_df[a].patient_id = master_df[b].patient_id)
                    /\ (FirstSeen(master_df[a].source_file)
                            < FirstSeen(master_df[b].source_file))
                        <=> (master_df[a].patient_id < master_df[b].patient_id)

C10_Witness ==
    /\ pc = "done"
    /\ listdir # files
    /\ Cardinality({master_df[k].source_file : k \in 1..Len(master_df)}) >= 2
    /\ \E k \in 1..Len(master_df) : master_df[k].patient_id # master_df[k].source_file


\* ------------------------------------------- properties: order of a batch

\* the per-file DataFrames taken in the order perm
Permuted(dfs, perm) == [k \in 1..Len(dfs) |-> dfs[perm[k]]]

\* a row without its patient_id
Content(row) == [c \in DOMAIN row \ {"patient_id"} |-> row[c]]

\* the rows of a master DataFrame, as a set, without patient_id
ContentSet(df) == {Content(df[k]) : k \in 1..Len(df)}

\* C11: for every batch of per-file results and every permutation of it,
\* the aggregation (concat, drop_duplicates, to_numeric, dropna) gives the
\* same set of rows, patient_id left aside.
C11_AggregationContentOrderIndependent ==
    (pc = "done" /\ all_results # <<>>)
        => \A perm \in OrderingsOf(1..Len(all_results)) :
              ContentSet(BuildMaster(Permuted(all_results, perm)))
                  = ContentSet(master_df)

\* a batch of two files or more from which duplicates were removed, and
\* whose reversal gives the rows in another order
C11_Witness ==
    /\ pc = "done"
    /\ Len(all_results) >= 2
    /\ Len(master_df) < Len(Concat(all_results))
    /\ \E perm \in OrderingsOf(1..Len(all_results)) :
          /\ [k \in 1..Len(master_df) |-> Content(master_df[k])]
                # [k \in 1..Len(master_df) |->
                      Content(BuildMaster(Permuted(all_results, perm))[k])]
          /\ ContentSet(BuildMaster(Permuted(all_results, perm)))
                = ContentSet(master_df)


\* ------------------------------------------- properties: the table scan

StartsSection(line) == AnyKeyword(table_start_keywords, line)

EndsSection(line) == AnyKeyword(table_end_keywords, line)

\* C12: in_test_section after line k is true exactly when some line j <= k
\* holds a start keyword and no line of j..k holds an end keyword; rows are
\* appended only at a line after which in_test_section is true; and a start
\* keyword on a later line, with no end keyword on it, reopens a closed
\* section.
C12_InSectionIffOpenedAndNotClosed ==
    \A k \in 1..Len(scan) :
        /\ scan[k].in_section
              <=> \E j \in 1..k :
                     /\ StartsSection(lines[j])
                     /\ \A m \in j..k : ~EndsSection(lines[m])
        /\ scan[k].rows # <<>> => scan[k].in_section
        /\ \A a \in 1..(k - 1) :
              (/\ ~scan[a].in_section
               /\ StartsSection(lines[k])
               /\ ~EndsSection(lines[k])) => scan[k].in_section

\* a section opened, closed by an end keyword, reopened, and a row appended
\* in the reopened section
C12_Witness ==
    /\ pc = "done"
    /\ \E a, b, c \in 1..Len(scan) :
          /\ a < b /\ b < c
          /\ scan[a].in_section
          /\ ~scan[b].in_section /\ EndsSection(lines[b])
          /\ scan[c].in_section
          /\ scan[c].rows # <<>>

\* the catalog entries whose pattern matches the line
MatchingPatterns(line) ==
    {x \in 1..Len(_compile_test_patterns) : PatternSearch(x, line)}

\* C13: a line yields at most one row; when a pattern matches a line in the
\* section and its lookahead window holds a number, exactly one row is
\* appended, and its test_name is that of the first catalog entry, in
\* catalog order, whose pattern matches the line.
C13_OneRowPerLineFirstMatchWins ==
    \A k \in 1..Len(scan) :
        /\ Len(scan[k].rows) <= 1
        /\ (/\ scan[k].in_section
            /\ MatchingPatterns(lines[k]) # {}
            /\ FirstNumber(Lookahead(lines, k)).found)
              => /\ Len(scan[k].rows) = 1
                 /\ \E x \in MatchingPatterns(lines[k]) :
                       /\ \A y \in MatchingPatterns(lines[k]) : x <= y
                       /\ scan[k].rows[1].test_name = _compile_test_patterns[x].name

\* a line that two catalog entries match, emitted once under the first
C13_Witness ==
    \E k \in 1..Len(scan) :
        /\ Cardinality(MatchingPatterns(lines[k])) >= 2
        /\ Len(scan[k].rows) = 1
        /\ scan[k].rows[1].test_name = _compile_test_patterns[1].name


\* ------------------------------------------------- properties of main

\* what regex_parser.parse gives for the text of the file at hand
DeterministicResult == RegexParser_parse(params.patterns, raw_text).data

\* C1: the model-assisted parser is called for a document iff the number of
\* test results the deterministic parser found is strictly less than the
\* threshold; with threshold 0 it is never called; and when the threshold is
\* met, the data that goes on is the deterministic parser's result.
C1_EscalatesIffYieldBelowThreshold ==
    /\ pc = "main_gemini" => num_tests_found < params.threshold
    /\ pc = "main_collect" =>
          /\ num_tests_found = Len(DeterministicResult.v["test_results"].v)
          /\ gemini_calls \in {0, 1}
          /\ gemini_calls = 1 <=> num_tests_found < params.threshold
          /\ params.threshold = 0 => gemini_calls = 0
          /\ gemini_calls = 0 => parsed_data = DeterministicResult

\* a document whose yield is exactly the threshold goes on without a call
C1_Witness ==
    /\ pc = "main_collect"
    /\ params.threshold > 0
    /\ num_tests_found = params.threshold
    /\ gemini_calls = 0
    /\ parsed_data = DeterministicResult

\* the structure the system prompt asks for: {patient_details, test_results[]}
IsExpectedStructure(value) ==
    /\ value.t = "obj"
    /\ DOMAIN value.v = {"patient_details", "test_results"}
    /\ value.v["patient_details"].t = "obj"
    /\ value.v["test_results"].t = "list"
    /\ \A k \in 1..Len(value.v["test_results"].v) :
          value.v["test_results"].v[k].t = "obj"

\* the model call failed, or its answer does not have the expected structure
FailedOrMalformed(r) ==
    \/ r.kind \in {"raises", "not_json"}
    \/ r.kind = "json" /\ ~IsExpectedStructure(r.value)

\* C2: when the escalation was triggered and the model call failed or gave
\* malformed output, the escalation step gives the record with empty patient
\* details and no test results, and main goes on with no rows for the
\* document and no exception.
C2_MalformedEscalationGivesEmptyRecord ==
    (gemini_calls = 1 /\ FailedOrMalformed(response)) =>
        /\ parsed_data = EmptyRecord
        /\ outcome # "exception"

\* C5: a failure on one document never ends the batch: main comes to its end
\* only after the last file of the listing, with no exception.
C5_BatchNeverAborted ==
    (pc = "done" /\ outcome # "no_params") =>
        /\ fidx = Len(files)
        /\ outcome # "exception"

\* C6: RegexParser.parse never raises, whatever the text and the catalog.
C6_RegexParseNeverRaises == raised.in # "RegexParser.parse"

\* result is a number: an int or a float that is not NaN
IsNumericResult(row) ==
    /\ "result" \in DOMAIN row.v
    /\ row.v["result"].t = "num"
    /\ ~row.v["result"].v.nan

\* C8: every row of the data main saves has a numeric result.
C8_SavedRowsHaveNumericResult ==
    outcome = "saved" =>
        \A k \in 1..Len(final_results) : IsNumericResult(final_results[k])


\* ------------------------------------------- properties: process_report

\* C14: when the parsers are initialized and the text extracted from the
\* upload is empty or shorter than 20 characters, the request ends with
\* status 400 and not 500, no parser or model has been called, and the
\* temporary file is deleted.
C14_ShortTextEndsWith400 ==
    (/\ pc = "done"
     /\ initialized
     /\ raw_text = <<>> \/ Len(raw_text) < MinApiTextLength)
        => /\ http_status = 400
           /\ regex_calls = 0
           /\ gemini_calls = 0
           /\ summary_calls = 0
           /\ ~tmp_exists


=============================================================================
